---- MODULE Spec2Model ----
(***************************************************************************)
(* TronDashboard screenshot analyzer (src/TronDashboard/analyze_screenshot *)
(* .py): load_image, brightness, the five analyzers, count_peaks,          *)
(* format_report and main, as a state machine.                             *)
(*                                                                         *)
(* Numbers.  A channel value is the 8-bit value k of the decoded image,    *)
(* standing for k/255.  A luminance is an integer X standing for           *)
(* X/LumOne; brightness() is exact on the colours used here (every colour  *)
(* of Palette has 1063 r + 3576 g + 361 b divisible by LumGrain).          *)
(* Quotients that the source keeps as floats are kept exactly, as a        *)
(* numerator n over a denominator d (a share of 1; the source's "* 100" is *)
(* applied where a threshold in percent is compared).  contrast_ratio is   *)
(* kept in thousandths, rounded down.  Floating-point rounding is not      *)
(* modelled.                                                               *)
(***************************************************************************)
EXTENDS Integers, Sequences, FiniteSets, TLC

VARIABLES pc, path, img, brt, dims, dist, grid, colors, regions,
          reflections, report, error, np_empty, arr, threshold, peaks,
          finished

vars == <<pc, path, img, brt, dims, dist, grid, colors, regions,
          reflections, report, error, np_empty, arr, threshold, peaks,
          finished>>

\* ---------------------------------------------------------------- bounds
MaxH == 6
MaxW == 10
MaxArrLen == 4
MaxMapLen == 3

\* -------------------------------------------------------------- numbers
LumGrain == 1250
LumOne == (255 * 5000) \div LumGrain
ContrastScale == 1000

None == [kind |-> "none"]
NoGrid == <<>>
Raise(exc) == [kind |-> "raise", exc |-> exc]
NaN == [nan |-> TRUE, n |-> 0, d |-> 1]
Num(n, d) == [nan |-> FALSE, n |-> n, d |-> d]

\* x > k percent, x a share n/d of 1.  Any comparison with nan is false.
PctGt(x, k) == ~x.nan /\ 100 * x.n > k * x.d
PctLt(x, k) == ~x.nan /\ 100 * x.n < k * x.d

Min(a, b) == IF a < b THEN a ELSE b
Max(a, b) == IF a > b THEN a ELSE b

RECURSIVE SumSeq(_)
SumSeq(s) == IF Len(s) = 0 THEN 0 ELSE s[1] + SumSeq(Tail(s))

\* The k-th smallest element (k from 0) of a non-empty sequence.
SortedAt(s, k) ==
  CHOOSE v \in {s[i] : i \in 1..Len(s)} :
    /\ Cardinality({i \in 1..Len(s) : s[i] < v}) <= k
    /\ k < Cardinality({i \in 1..Len(s) : s[i] <= v})

\* np.percentile(a, q), linear interpolation between the two order
\* statistics around q/100 * (n-1); the result is in hundredths of a's unit.
\* Of an empty array it raises or gives nan, as the numpy build does.
percentile(a, q, empty) ==
  IF Len(a) = 0
    THEN (IF empty = "raise" THEN Raise("IndexError") ELSE NaN)
    ELSE LET pos == q * (Len(a) - 1)
             lo  == pos \div 100
             hi  == Min(lo + 1, Len(a) - 1)
             fr  == pos % 100
             vlo == SortedAt(a, lo)
             vhi == SortedAt(a, hi)
         IN  Num(100 * vlo + fr * (vhi - vlo), 100)

\* np.mean: nan (and a warning) of an empty array.
mean(a) == IF Len(a) = 0 THEN NaN ELSE Num(SumSeq(a), Len(a))

\* np.max: ValueError of an empty array.
amax(a) ==
  IF Len(a) = 0 THEN Raise("ValueError")
  ELSE Num(CHOOSE v \in {a[i] : i \in 1..Len(a)} :
             \A i \in 1..Len(a) : a[i] <= v, 1)

\* np.std (population): kept as its square, n * sum(x^2) - sum(x)^2 over n^2.
std(a) ==
  IF Len(a) = 0 THEN NaN
  ELSE LET s  == SumSeq(a)
           s2 == SumSeq([i \in 1..Len(a) |-> a[i] * a[i]])
       IN  Num(Len(a) * s2 - s * s, Len(a) * Len(a))

\* std * 100 > k, for k in {1, 3}: variance > (k/100)^2, in LumOne units.
StdPctGt(sd, k) ==
  ~sd.nan /\ 25 * sd.n > ((k * k * LumOne * LumOne) \div 400) * sd.d

\* ---------------------------------------------------------------- images
Black   == <<0, 0, 0>>
Floor05 == <<5, 12, 43>>
Dark10  == <<25, 25, 25>>
Line20  == <<51, 51, 51>>
Cyan    == <<0, 69, 196>>
White   == <<255, 255, 255>>
Palette == {Black, Floor05, Dark10, Line20, Cyan, White}

ColourPairs ==
  { <<Black, Black>>, <<White, White>>, <<Floor05, Line20>>,
    <<Line20, Floor05>>, <<Black, White>>, <<Floor05, Dark10>>,
    <<Floor05, Cyan>>, <<Black, Cyan>> }

\* An h x w x 3 array whose rows repeat colour a with colour b at every
\* per-th pixel, each row shifted by slant against the row above.
Pattern(h, w, a, b, per, slant) ==
  [h |-> h, w |-> w, ch |-> 3,
   px |-> [y \in 0..(h - 1) |-> [x \in 0..(w - 1) |->
             IF (x + slant * y) % per = per - 1 THEN b ELSE a]]]

Images(hs, ws) ==
  { Pattern(h, w, p[1], p[2], per, slant) :
      h \in hs, w \in ws, p \in ColourPairs, per \in {2, 5}, slant \in {0, 1} }

\* ------------------------------------------------------------ load_image
\* Image.open(path).convert("RGB"), np.array(...) / 255: three channels, at
\* least one pixel; a file that cannot be decoded raises in PIL.
load_image(p) ==
  IF p.readable THEN [kind |-> "ok", img |-> p.image]
  ELSE Raise("LoadError")

\* ------------------------------------------------------------ brightness
\* 0.2126 R + 0.7152 G + 0.0722 B of the first three channels; channels
\* beyond the third are not read, a missing one is an IndexError.
lum(p) == (1063 * p[1] + 3576 * p[2] + 361 * p[3]) \div LumGrain

brightness(pixels) ==
  IF pixels.ch < 3 THEN Raise("IndexError")
  ELSE [kind |-> "ok", h |-> pixels.h, w |-> pixels.w,
        v |-> [y \in 0..(pixels.h - 1) |-> [x \in 0..(pixels.w - 1) |->
                 lum(pixels.px[y][x])]]]

\* brt[r0:r1, c0:c1] flattened, row by row.
Slice(b, r0, r1, c0, c1) ==
  LET nr == Max(0, r1 - r0)
      nc == Max(0, c1 - c0)
  IN  [k \in 1..(nr * nc) |-> b.v[r0 + ((k - 1) \div nc)][c0 + ((k - 1) % nc)]]

Flat(b) == Slice(b, 0, b.h, 0, b.w)

\* int(frac * n) for frac = f/100.
Trunc(f, n) == (f * n) \div 100

\* ----------------------------------------- analyze_brightness_distribution
BandNames == <<"black", "very_dark", "dark", "mid", "bright", "hot">>

\* The six masks of lines 36-41, x a luminance in LumOne units; here with
\* the low end of each band exclusive.
InBandOpenLow(k, x) ==
  CASE k = 1 -> 100 * x < 2 * LumOne
    [] k = 2 -> 100 * x > 2 * LumOne /\ 100 * x < 6 * LumOne
    [] k = 3 -> 100 * x > 6 * LumOne /\ 100 * x < 15 * LumOne
    [] k = 4 -> 100 * x > 15 * LumOne /\ 100 * x < 40 * LumOne
    [] k = 5 -> 100 * x > 40 * LumOne /\ 100 * x < 70 * LumOne
    [] k = 6 -> 100 * x > 70 * LumOne

\* The masks with the comparison of the hot band turned round (brt <= 0.70).
InBandHotFlipped(k, x) ==
  CASE k = 1 -> 100 * x < 2 * LumOne
    [] k = 2 -> 100 * x >= 2 * LumOne /\ 100 * x < 6 * LumOne
    [] k = 3 -> 100 * x >= 6 * LumOne /\ 100 * x < 15 * LumOne
    [] k = 4 -> 100 * x >= 15 * LumOne /\ 100 * x < 40 * LumOne
    [] k = 5 -> 100 * x >= 40 * LumOne /\ 100 * x < 70 * LumOne
    [] k = 6 -> 100 * x <= 70 * LumOne

\* The six masks of lines 36-41: low end inclusive, high end exclusive.
InBand(k, x) ==
  CASE k = 1 -> 100 * x < 2 * LumOne
    [] k = 2 -> 100 * x >= 2 * LumOne /\ 100 * x < 6 * LumOne
    [] k = 3 -> 100 * x >= 6 * LumOne /\ 100 * x < 15 * LumOne
    [] k = 4 -> 100 * x >= 15 * LumOne /\ 100 * x < 40 * LumOne
    [] k = 5 -> 100 * x >= 40 * LumOne /\ 100 * x < 70 * LumOne
    [] k = 6 -> 100 * x >= 70 * LumOne

\* np.sum(mask) / total: nan when total is 0.
Share(count, total) == IF total = 0 THEN NaN ELSE Num(count, total)

BandCount(a, k) == Cardinality({i \in 1..Len(a) : InBand(k, a[i])})

analyze_brightness_distribution(b, empty) ==
  LET a     == Flat(b)
      total == Len(a)
      p95   == percentile(a, 95, empty)
      p99   == percentile(a, 99, empty)
      mx    == amax(a)
  IN  IF "kind" \in DOMAIN p95 THEN p95
      ELSE IF "kind" \in DOMAIN p99 THEN p99
      ELSE IF "kind" \in DOMAIN mx THEN mx
      ELSE [kind   |-> "ok",
            band   |-> [k \in 1..6 |-> Share(BandCount(a, k), total)],
            mean   |-> mean(a),
            median |-> percentile(a, 50, "nan"),
            p95    |-> p95,
            p99    |-> p99,
            max    |-> mx]

\* ------------------------------------------------------------ count_peaks
\* The falling edges of above (edges == -1).
count_peaks_falling(a, t) ==
  Cardinality({i \in 1..(Len(a) - 1) : a[i] > t /\ ~(a[i + 1] > t)})

\* above = arr > threshold; the rising edges of above (edges == 1).
count_peaks(a, t) ==
  Cardinality({i \in 1..(Len(a) - 1) : ~(a[i] > t) /\ a[i + 1] > t})

\* ------------------------------------------------------ analyze_grid_lines
ScanFracs ==
  << [name |-> "h_40%", axis |-> "h", frac |-> 40],
     [name |-> "h_45%", axis |-> "h", frac |-> 45],
     [name |-> "h_50%", axis |-> "h", frac |-> 50],
     [name |-> "h_55%", axis |-> "h", frac |-> 55],
     [name |-> "h_60%", axis |-> "h", frac |-> 60],
     [name |-> "v_40%", axis |-> "v", frac |-> 40],
     [name |-> "v_50%", axis |-> "v", frac |-> 50],
     [name |-> "v_60%", axis |-> "v", frac |-> 60] >>

\* One pass of either loop body on the row or column a.  Levels are in
\* hundredths of a LumOne unit; 0.001 is LumOne \div 10 of them; the peak
\* threshold floor + (line - floor) * 0.3 is compared in thousandths.
\* Here with the clamp applied to the line level as well.
scan_line_clamp_both(name, a) ==
  LET p20   == percentile(a, 20, "nan").n
      p90   == percentile(a, 90, "nan").n
      floor == IF 10 * p20 < LumOne THEN LumOne \div 10 ELSE p20
      line  == IF 10 * p90 < LumOne THEN LumOne \div 10 ELSE p90
  IN  [name |-> name,
       floor_brightness |-> Num(floor, 100),
       line_brightness  |-> Num(line, 100),
       contrast_ratio   |-> (line * ContrastScale) \div floor,
       peak_count |-> count_peaks([i \in 1..Len(a) |-> 1000 * a[i]],
                                  10 * floor + 3 * (line - floor))]

scan_line(name, a) ==
  LET p20   == percentile(a, 20, "nan").n
      line  == percentile(a, 90, "nan").n
      floor == IF 10 * p20 < LumOne THEN LumOne \div 10 ELSE p20
  IN  [name |-> name,
       floor_brightness |-> Num(floor, 100),
       line_brightness  |-> Num(line, 100),
       contrast_ratio   |-> (line * ContrastScale) \div floor,
       peak_count |-> count_peaks([i \in 1..Len(a) |-> 1000 * a[i]],
                                  10 * floor + 3 * (line - floor))]

Row(b, y) == Slice(b, y, y + 1, 0, b.w)
Col(b, x) == Slice(b, 0, b.h, x, x + 1)

analyze_grid_lines(b) ==
  [i \in 1..Len(ScanFracs) |->
     LET s == ScanFracs[i]
     IN  IF s.axis = "h" THEN scan_line(s.name, Row(b, Trunc(s.frac, b.h)))
         ELSE scan_line(s.name, Col(b, Trunc(s.frac, b.w)))]

\* -------------------------------------------------- analyze_color_channels
\* Channel c stands for c/255: c > 0.1 is 10 c > 255, r < g * 0.3 is
\* 10 r < 3 g, and so on.
is_cyan(p)   == 10 * p[2] > 255 /\ 10 * p[3] > 255 /\ 10 * p[1] < 3 * p[2]
is_warm(p)   == 10 * p[1] > 255 /\ 2 * p[1] > 3 * p[2] /\ 2 * p[1] > 3 * p[3]
is_purple(p) == 10 * p[1] > 255 /\ 10 * p[3] > 255 /\ 2 * p[2] < p[1]
is_green(p)  == 10 * p[2] > 255 /\ p[2] > 2 * p[1] /\ 2 * p[2] > 3 * p[3]
is_white(p)  == 2 * p[1] > 255 /\ 2 * p[2] > 255 /\ 2 * p[3] > 255

Positions(pixels) == (0..(pixels.h - 1)) \X (0..(pixels.w - 1))

analyze_color_channels(pixels) ==
  LET size == pixels.h * pixels.w
      Count(P(_)) ==
        Cardinality({q \in Positions(pixels) : P(pixels.px[q[1]][q[2]])})
  IN  [cyan_teal       |-> Share(Count(is_cyan), size),
       warm_red_orange |-> Share(Count(is_warm), size),
       purple_magenta  |-> Share(Count(is_purple), size),
       green           |-> Share(Count(is_green), size),
       white_hot       |-> Share(Count(is_white), size)]

\* ---------------------------------------------------------- analyze_regions
\* The five slices, bounds int(h * f) and int(w * f).
RegionBounds(h, w) ==
  [center |-> <<Trunc(30, h), Trunc(70, h), Trunc(30, w), Trunc(70, w)>>,
   bottom |-> <<Trunc(60, h), Trunc(90, h), Trunc(20, w), Trunc(80, w)>>,
   top    |-> <<Trunc(10, h), Trunc(30, h), Trunc(20, w), Trunc(80, w)>>,
   left   |-> <<Trunc(30, h), Trunc(70, h), 0, Trunc(15, w)>>,
   right  |-> <<Trunc(30, h), Trunc(70, h), Trunc(85, w), w>>]

RegionNames == {"center", "bottom", "top", "left", "right"}

RegionOf(b, name) ==
  LET r == RegionBounds(b.h, b.w)[name]
  IN  Slice(b, r[1], r[2], r[3], r[4])

analyze_regions(b, empty) ==
  LET c95 == percentile(RegionOf(b, "center"), 95, empty)
      b95 == percentile(RegionOf(b, "bottom"), 95, empty)
      t95 == percentile(RegionOf(b, "top"), 95, empty)
  IN  IF "kind" \in DOMAIN c95 THEN c95
      ELSE IF "kind" \in DOMAIN b95 THEN b95
      ELSE IF "kind" \in DOMAIN t95 THEN t95
      ELSE [kind        |-> "ok",
            center_mean |-> mean(RegionOf(b, "center")),
            center_p95  |-> c95,
            bottom_mean |-> mean(RegionOf(b, "bottom")),
            bottom_p95  |-> b95,
            top_mean    |-> mean(RegionOf(b, "top")),
            top_p95     |-> t95,
            left_mean   |-> mean(RegionOf(b, "left")),
            right_mean  |-> mean(RegionOf(b, "right"))]

\* ------------------------------------------------ analyze_reflection_quality
FloorBounds(h, w) ==
  <<Trunc(60, h), Trunc(80, h), Trunc(20, w), Trunc(80, w)>>

FloorOf(b) ==
  LET r == FloorBounds(b.h, b.w)
  IN  Slice(b, r[1], r[2], r[3], r[4])

analyze_reflection_quality(b) ==
  LET floor_std == std(FloorOf(b))
      floor_max == amax(FloorOf(b))
  IN  IF "kind" \in DOMAIN floor_max THEN floor_max
      ELSE [kind |-> "ok",
            floor_brightness_std |-> floor_std,
            floor_max_brightness |-> floor_max,
            floor_has_variation  |->
              IF StdPctGt(floor_std, 3) THEN "YES"
              ELSE IF StdPctGt(floor_std, 1) THEN "WEAK" ELSE "NO"]

\* ------------------------------------------------------------ format_report
IssueOrder ==
  <<"TOO DARK", "NO GRID FLOOR", "LOW CONTRAST", "NO CYAN", "NO SSR",
    "BLOOM OVERLOAD">>

\* The contrast averaged over the five horizontal scan lines only.
AvgContrastHorizontal(g) ==
  Num(SumSeq([i \in 1..5 |-> g[i].contrast_ratio]), 5 * ContrastScale)

\* np.mean of the eight contrast ratios and of the eight peak counts.
AvgContrast(g) ==
  Num(SumSeq([i \in 1..Len(g) |-> g[i].contrast_ratio]),
      Len(g) * ContrastScale)
AvgPeaks(g) == Num(SumSeq([i \in 1..Len(g) |-> g[i].peak_count]), Len(g))

\* x > a/b and x < a/b for an average x.
RatGt(x, a, b) == ~x.nan /\ b * x.n > a * x.d
RatLt(x, a, b) == ~x.nan /\ b * x.n < a * x.d

\* Lines 221-228.
grid_verdict(avg_contrast, avg_peaks) ==
  IF RatGt(avg_contrast, 5, 1) /\ RatGt(avg_peaks, 3, 1) THEN "EXCELLENT"
  ELSE IF RatGt(avg_contrast, 3, 1) /\ RatGt(avg_peaks, 2, 1) THEN "GOOD"
  ELSE IF RatGt(avg_contrast, 3, 2) THEN "WEAK"
  ELSE "INVISIBLE"

\* Lines 250-262 with every "if" after the first read as "elif".
issues_elif(d, avg_contrast, c, r) ==
  IF PctGt(d.band[1], 70) THEN <<"TOO DARK">>
  ELSE IF PctGt(d.band[1], 50) /\ PctLt(d.band[3], 5) THEN <<"NO GRID FLOOR">>
  ELSE IF RatLt(avg_contrast, 2, 1) THEN <<"LOW CONTRAST">>
  ELSE IF PctLt(c.cyan_teal, 1) THEN <<"NO CYAN">>
  ELSE IF r.floor_has_variation = "NO" THEN <<"NO SSR">>
  ELSE IF PctGt(d.band[6], 15) THEN <<"BLOOM OVERLOAD">>
  ELSE <<>>

\* Lines 250-262: six independent appends.
issues_of(d, avg_contrast, c, r) ==
  LET i0 == <<>>
      i1 == IF PctGt(d.band[1], 70) THEN Append(i0, "TOO DARK") ELSE i0
      i2 == IF PctGt(d.band[1], 50) /\ PctLt(d.band[3], 5)
              THEN Append(i1, "NO GRID FLOOR") ELSE i1
      i3 == IF RatLt(avg_contrast, 2, 1)
              THEN Append(i2, "LOW CONTRAST") ELSE i2
      i4 == IF PctLt(c.cyan_teal, 1) THEN Append(i3, "NO CYAN") ELSE i3
      i5 == IF r.floor_has_variation = "NO"
              THEN Append(i4, "NO SSR") ELSE i4
      i6 == IF PctGt(d.band[6], 15)
              THEN Append(i5, "BLOOM OVERLOAD") ELSE i5
  IN  i6

\* The report: its sections as values (the rendering of numbers to text is
\* not modelled), the verdict, and the lines of the overall assessment.
format_report(d, g, c, rg, rf, dm) ==
  LET avg_contrast == AvgContrast(g)
      avg_peaks    == AvgPeaks(g)
      issues       == issues_of(d, avg_contrast, c, rf)
  IN  [kind         |-> "report",
       resolution   |-> dm,
       dist         |-> d,
       grid         |-> g,
       avg_contrast |-> avg_contrast,
       avg_peaks    |-> avg_peaks,
       grid_verdict |-> grid_verdict(avg_contrast, avg_peaks),
       colors       |-> c,
       regions      |-> rg,
       reflections  |-> rf,
       issues       |-> issues,
       assessment   |->
         IF Len(issues) = 0
           THEN <<[mark |-> "ok", text |-> "No major issues detected"]>>
           ELSE [i \in 1..Len(issues) |->
                   [mark |-> "issue", text |-> issues[i]]]]

\* ---------------------------------------------------------------- main
\* The files a run may be pointed at: one PIL cannot decode, and decodable
\* images of every size up to MaxH x MaxW.
Files ==
  {[readable |-> FALSE, image |-> None]} \cup
  {[readable |-> TRUE, image |-> i] : i \in Images(1..MaxH, 1..MaxW)}

Idle == /\ arr = <<>> /\ threshold = 0 /\ peaks = 0 /\ finished = {}

Init ==
  /\ pc = "load"
  /\ path \in Files
  /\ np_empty \in {"raise", "nan"}
  /\ img = None /\ brt = None /\ dims = None /\ dist = None /\ grid = NoGrid
  /\ colors = None /\ regions = None /\ reflections = None /\ report = None
  /\ error = "none"
  /\ Idle

\* An uncaught exception ends the process: nothing is printed.
Crash(exc) ==
  /\ pc' = "crashed"
  /\ error' = exc

\* Line 291.
LoadImage ==
  /\ pc = "load"
  /\ LET r == load_image(path)
     IN  IF r.kind = "raise"
           THEN Crash(r.exc) /\ UNCHANGED img
           ELSE pc' = "brightness" /\ img' = r.img /\ UNCHANGED error
  /\ UNCHANGED <<path, brt, dims, dist, grid, colors, regions, reflections,
                 report, np_empty, arr, threshold, peaks, finished>>

\* Lines 292-293.
Brightness ==
  /\ pc = "brightness"
  /\ LET r == brightness(img)
     IN  IF r.kind = "raise"
           THEN Crash(r.exc) /\ UNCHANGED <<brt, dims>>
           ELSE /\ pc' = "distribution"
                /\ brt' = r
                /\ dims' = <<img.w, img.h>>
                /\ UNCHANGED error
  /\ UNCHANGED <<path, img, dist, grid, colors, regions, reflections,
                 report, np_empty, arr, threshold, peaks, finished>>

\* Line 295.
Distribution ==
  /\ pc = "distribution"
  /\ LET r == analyze_brightness_distribution(brt, np_empty)
     IN  IF r.kind = "raise"
           THEN Crash(r.exc) /\ UNCHANGED dist
           ELSE pc' = "grid" /\ dist' = r /\ UNCHANGED error
  /\ UNCHANGED <<path, img, brt, dims, grid, colors, regions, reflections,
                 report, np_empty, arr, threshold, peaks, finished>>

\* Line 296.
GridLines ==
  /\ pc = "grid"
  /\ grid' = analyze_grid_lines(brt)
  /\ pc' = "colors"
  /\ UNCHANGED <<path, img, brt, dims, dist, colors, regions, reflections,
                 report, error, np_empty, arr, threshold, peaks, finished>>

\* Line 297.
ColorChannels ==
  /\ pc = "colors"
  /\ colors' = analyze_color_channels(img)
  /\ pc' = "regions"
  /\ UNCHANGED <<path, img, brt, dims, dist, grid, regions, reflections,
                 report, error, np_empty, arr, threshold, peaks, finished>>

\* Line 298.
Regions ==
  /\ pc = "regions"
  /\ LET r == analyze_regions(brt, np_empty)
     IN  IF r.kind = "raise"
           THEN Crash(r.exc) /\ UNCHANGED regions
           ELSE pc' = "reflections" /\ regions' = r /\ UNCHANGED error
  /\ UNCHANGED <<path, img, brt, dims, dist, grid, colors, reflections,
                 report, np_empty, arr, threshold, peaks, finished>>

\* Line 299.
Reflections ==
  /\ pc = "reflections"
  /\ LET r == analyze_reflection_quality(brt)
     IN  IF r.kind = "raise"
           THEN Crash(r.exc) /\ UNCHANGED reflections
           ELSE pc' = "report" /\ reflections' = r /\ UNCHANGED error
  /\ UNCHANGED <<path, img, brt, dims, dist, grid, colors, regions,
                 report, np_empty, arr, threshold, peaks, finished>>

\* Lines 301-302.
Report ==
  /\ pc = "report"
  /\ report' = format_report(dist, grid, colors, regions, reflections, dims)
  /\ pc' = "done"
  /\ UNCHANGED <<path, img, brt, dims, dist, grid, colors, regions,
                 reflections, error, np_empty, arr, threshold, peaks,
                 finished>>

Analyze ==
  \/ Brightness \/ Distribution \/ GridLines \/ ColorChannels
  \/ Regions \/ Reflections \/ Report

Next == LoadImage \/ Analyze

Spec == Init /\ [][Next]_vars

\* ------------------------------------------------------- the analysis core
\* The core entered at brightness() with any array a caller may pass: also
\* one with no pixels, or with 1, 2 or 4 channels.
Reshape(im, ch) ==
  [im EXCEPT !.ch = ch,
             !.px = [y \in DOMAIN im.px |-> [x \in DOMAIN im.px[y] |->
                       [k \in 1..ch |->
                          IF k <= 3 THEN im.px[y][x][k] ELSE 255]]]]

CoreBuffers ==
  { Reshape(i, ch) : i \in Images({0, 1, MaxH}, {0, 1, MaxW}), ch \in 1..4 }

NoFile == [readable |-> FALSE, image |-> None]

InitCore ==
  /\ pc = "brightness"
  /\ path = NoFile
  /\ img \in CoreBuffers
  /\ np_empty \in {"raise", "nan"}
  /\ brt = None /\ dims = None /\ dist = None /\ grid = NoGrid
  /\ colors = None /\ regions = None /\ reflections = None /\ report = None
  /\ error = "none"
  /\ Idle

SpecCore == InitCore /\ [][Analyze]_vars

\* ------------------------------------------- format_report on its own
\* Analyzer outputs around every threshold of the issue rules.
ReportDists ==
  { [kind |-> "ok",
     band |-> [k \in 1..6 |->
                 Num(CASE k = 1 -> b1 [] k = 2 -> 100 - b1 - b3 - b6
                       [] k = 3 -> b3 [] k = 6 -> b6 [] OTHER -> 0, 100)],
     mean |-> Num(b6, 100), median |-> Num(0, 100), p95 |-> Num(100, 100),
     p99 |-> Num(100, 100), max |-> Num(1, 1)] :
      b1 \in {50, 51, 70, 71}, b3 \in {4, 5}, b6 \in {15, 16} }

ReportGrids ==
  { [i \in 1..Len(ScanFracs) |->
       [name |-> ScanFracs[i].name,
        floor_brightness |-> Num(100, 100),
        line_brightness  |-> Num(c \div 10, 100),
        contrast_ratio   |-> c,
        peak_count       |-> k]] :
      c \in {1999, 2000, 3001, 5001}, k \in {2, 4} }

ReportColors ==
  { [cyan_teal |-> Num(n, 1000), warm_red_orange |-> Num(0, 1000),
     purple_magenta |-> Num(0, 1000), green |-> Num(0, 1000),
     white_hot |-> Num(0, 1000)] : n \in {9, 10} }

ReportRegions ==
  [kind |-> "ok", center_mean |-> Num(1, 4), center_p95 |-> Num(50, 100),
   bottom_mean |-> Num(1, 4), bottom_p95 |-> Num(50, 100),
   top_mean |-> Num(1, 4), top_p95 |-> Num(50, 100),
   left_mean |-> Num(1, 4), right_mean |-> Num(1, 4)]

ReportReflections ==
  { [kind |-> "ok", floor_brightness_std |-> Num(0, 1),
     floor_max_brightness |-> Num(0, 1), floor_has_variation |-> v] :
      v \in {"YES", "WEAK", "NO"} }

InitReport ==
  /\ pc = "report"
  /\ path = NoFile /\ img = None /\ brt = None /\ np_empty = "raise"
  /\ dims = <<MaxW, MaxH>>
  /\ dist \in ReportDists
  /\ grid \in ReportGrids
  /\ colors \in ReportColors
  /\ regions = ReportRegions
  /\ reflections \in ReportReflections
  /\ report = None
  /\ error = "none"
  /\ Idle

SpecReport == InitReport /\ [][Report]_vars

\* --------------------------- analyze_brightness_distribution on its own
\* Luminances on both sides of every band edge (0.15, 0.40 and 0.70 are the
\* values 153, 408 and 714; 0.02 and 0.06 fall between two values).
EdgeLums == {0, 20, 21, 61, 62, 152, 153, 407, 408, 713, 714, LumOne}

\* The 1 x n maps over those values.
LumMaps(n) ==
  { [kind |-> "ok", h |-> 1, w |-> n, v |-> [y \in {0} |-> m]] :
      m \in [0..(n - 1) -> EdgeLums] }

InitDist ==
  /\ pc = "distribution"
  /\ path = NoFile /\ img = None /\ dims = None
  /\ \E n \in 1..MaxMapLen : brt \in LumMaps(n)
  /\ np_empty = "raise"
  /\ dist = None /\ grid = NoGrid /\ colors = None /\ regions = None
  /\ reflections = None /\ report = None
  /\ error = "none"
  /\ Idle

SpecDist == InitDist /\ [][Distribution]_vars

\* ---------------------------------------------------- count_peaks on its own
PeakValues == {0, 1, 2}
PeakThresholds == {-1, 0, 1, 2}

PeakArrays == UNION { [1..n -> PeakValues] : n \in 0..MaxArrLen }

InitPeaks ==
  /\ pc = "count_peaks"
  /\ arr \in PeakArrays
  /\ threshold \in PeakThresholds
  /\ peaks = 0 /\ finished = {}
  /\ path = NoFile /\ img = None /\ brt = None /\ dims = None
  /\ np_empty = "raise"
  /\ dist = None /\ grid = NoGrid /\ colors = None /\ regions = None
  /\ reflections = None /\ report = None
  /\ error = "none"

CountPeaks ==
  /\ pc = "count_peaks"
  /\ peaks' = count_peaks(arr, threshold)
  /\ pc' = "counted"
  /\ UNCHANGED <<path, img, brt, dims, dist, grid, colors, regions,
                 reflections, report, error, np_empty, arr, threshold,
                 finished>>

SpecPeaks == InitPeaks /\ [][CountPeaks]_vars

\* ------------------------------------------- the analyzers in any order
\* Section 5 of the design: the five analyzers of lines 295-299 as
\* independent tasks over the same img and brt, joined before format_report.
\* finished lists the analyzers in the order they completed.
Analyzers == {"dist", "grid", "colors", "regions", "reflections"}

Done(a) == \E i \in 1..Len(finished) : finished[i] = a

InitPar ==
  /\ pc = "analyzers"
  /\ path = NoFile
  /\ img \in Images({1, 3, MaxH}, {MaxW})
  /\ brt = brightness(img)
  /\ dims = <<img.w, img.h>>
  /\ np_empty \in {"raise", "nan"}
  /\ dist = None /\ grid = NoGrid /\ colors = None /\ regions = None
  /\ reflections = None /\ report = None
  /\ error = "none"
  /\ arr = <<>> /\ threshold = 0 /\ peaks = 0
  /\ finished = <<>>

ParDistribution ==
  /\ pc = "analyzers" /\ ~Done("dist")
  /\ dist' = analyze_brightness_distribution(brt, np_empty)
  /\ finished' = Append(finished, "dist")
  /\ UNCHANGED <<pc, path, img, brt, dims, grid, colors, regions,
                 reflections, report, error, np_empty, arr, threshold, peaks>>

\* As ParGridLines, had the floor clamp of lines 72-73 and 89-90 been
\* written into the array (brt[brt < 0.001] = 0.001).
ParGridLinesInPlace ==
  /\ pc = "analyzers" /\ ~Done("grid")
  /\ grid' = analyze_grid_lines(brt)
  /\ brt' = [brt EXCEPT !.v = [y \in DOMAIN brt.v |-> [x \in DOMAIN brt.v[y] |->
                                 Max(brt.v[y][x], 1)]]]
  /\ finished' = Append(finished, "grid")
  /\ UNCHANGED <<pc, path, img, dims, dist, colors, regions,
                 reflections, report, error, np_empty, arr, threshold, peaks>>

ParGridLines ==
  /\ pc = "analyzers" /\ ~Done("grid")
  /\ grid' = analyze_grid_lines(brt)
  /\ finished' = Append(finished, "grid")
  /\ UNCHANGED <<pc, path, img, brt, dims, dist, colors, regions,
                 reflections, report, error, np_empty, arr, threshold, peaks>>

ParColorChannels ==
  /\ pc = "analyzers" /\ ~Done("colors")
  /\ colors' = analyze_color_channels(img)
  /\ finished' = Append(finished, "colors")
  /\ UNCHANGED <<pc, path, img, brt, dims, dist, grid, regions,
                 reflections, report, error, np_empty, arr, threshold, peaks>>

ParRegions ==
  /\ pc = "analyzers" /\ ~Done("regions")
  /\ regions' = analyze_regions(brt, np_empty)
  /\ finished' = Append(finished, "regions")
  /\ UNCHANGED <<pc, path, img, brt, dims, dist, grid, colors,
                 reflections, report, error, np_empty, arr, threshold, peaks>>

ParReflections ==
  /\ pc = "analyzers" /\ ~Done("reflections")
  /\ reflections' = analyze_reflection_quality(brt)
  /\ finished' = Append(finished, "reflections")
  /\ UNCHANGED <<pc, path, img, brt, dims, dist, grid, colors, regions,
                 report, error, np_empty, arr, threshold, peaks>>

\* The join: the results are taken in program order, so the first analyzer
\* of that order that raised ends the run; otherwise lines 301-302.
ParReport ==
  /\ pc = "analyzers" /\ \A a \in Analyzers : Done(a)
  /\ IF dist.kind = "raise" THEN Crash(dist.exc) /\ UNCHANGED report
     ELSE IF regions.kind = "raise" THEN Crash(regions.exc) /\ UNCHANGED report
     ELSE IF reflections.kind = "raise"
       THEN Crash(reflections.exc) /\ UNCHANGED report
     ELSE /\ report' = format_report(dist, grid, colors, regions,
                                     reflections, dims)
          /\ pc' = "done"
          /\ UNCHANGED error
  /\ UNCHANGED <<path, img, brt, dims, dist, grid, colors, regions,
                 reflections, np_empty, arr, threshold, peaks, finished>>

NextPar ==
  \/ ParDistribution \/ ParGridLines \/ ParColorChannels
  \/ ParRegions \/ ParReflections \/ ParReport

SpecPar == InitPar /\ [][NextPar]_vars

\* main's lines 292-302 as one function of the image: what the sequential
\* run ends with.
main_outcome(pixels, empty) ==
  LET b  == brightness(pixels)
      d  == analyze_brightness_distribution(b, empty)
      g  == analyze_grid_lines(b)
      c  == analyze_color_channels(pixels)
      rg == analyze_regions(b, empty)
      rf == analyze_reflection_quality(b)
  IN  IF b.kind = "raise" THEN [pc |-> "crashed", error |-> b.exc, report |-> None]
      ELSE IF d.kind = "raise"
        THEN [pc |-> "crashed", error |-> d.exc, report |-> None]
      ELSE IF rg.kind = "raise"
        THEN [pc |-> "crashed", error |-> rg.exc, report |-> None]
      ELSE IF rf.kind = "raise"
        THEN [pc |-> "crashed", error |-> rf.exc, report |-> None]
      ELSE [pc |-> "done", error |-> "none",
            report |-> format_report(d, g, c, rg, rf, <<pixels.w, pixels.h>>)]

\* ================================================================ claims
Loaded == img # None
Terminal == pc \in {"done", "crashed"}
HasGrid == Len(grid) = Len(ScanFracs)
Range(q) == {q[i] : i \in 1..Len(q)}
PctEq(x, k) == ~x.nan /\ 100 * x.n = k * x.d

AllBlack(im) ==
  /\ im.h >= 1 /\ im.w >= 1
  /\ \A q \in Positions(im) : im.px[q[1]][q[2]] = Black

\* The rule of each issue, read off the analyzer outputs.
Rule(name, d, g, c, r) ==
  CASE name = "TOO DARK"       -> 100 * d.band[1].n > 70 * d.band[1].d
    [] name = "NO GRID FLOOR"  -> /\ 100 * d.band[1].n > 50 * d.band[1].d
                                  /\ 100 * d.band[3].n < 5 * d.band[3].d
    [] name = "LOW CONTRAST"   ->
         SumSeq([i \in 1..Len(g) |-> g[i].contrast_ratio])
           < 2 * ContrastScale * Len(g)
    [] name = "NO CYAN"        -> 100 * c.cyan_teal.n < c.cyan_teal.d
    [] name = "NO SSR"         -> r.floor_has_variation = "NO"
    [] name = "BLOOM OVERLOAD" -> 100 * d.band[6].n > 15 * d.band[6].d

IssueIndex(name) == CHOOSE i \in 1..Len(IssueOrder) : IssueOrder[i] = name

\* C1: whatever the analyzer outputs, the report's issue list holds each of
\* the six issues exactly when its own rule holds, in the fixed order and
\* once each, and the "No major issues detected" line is there exactly when
\* no rule holds.
C1_IssueRules ==
  pc = "done" =>
    /\ \A name \in Range(IssueOrder) :
         name \in Range(report.issues)
           <=> Rule(name, dist, grid, colors, reflections)
    /\ Range(report.issues) \subseteq Range(IssueOrder)
    /\ \A i, j \in 1..Len(report.issues) :
         i < j => IssueIndex(report.issues[i]) < IssueIndex(report.issues[j])
    /\ (\E i \in 1..Len(report.assessment) : report.assessment[i].mark = "ok")
         <=> \A name \in Range(IssueOrder) :
               ~Rule(name, dist, grid, colors, reflections)
    /\ [i \in 1..Len(report.issues) |-> report.assessment[i].text]
         = report.issues \/ Len(report.issues) = 0

\* C1's case: all six rules hold and all six issues are reported.
C1_Witness ==
  /\ pc = "done"
  /\ report.issues = IssueOrder

\* C2: after analyze_brightness_distribution on a map of at least one pixel
\* every pixel lies in exactly one band, the six band counts add up to the
\* pixel count, and the six percentages add up to 100.
C2_BandsPartition ==
  (pc = "grid" /\ brt.h * brt.w >= 1) =>
    LET a == Flat(brt)
        counts == [k \in 1..6 |-> dist.band[k].n]
    IN  /\ \A i \in 1..Len(a) :
             Cardinality({k \in 1..6 : InBand(k, a[i])}) = 1
        /\ \A k \in 1..6 : ~dist.band[k].nan /\ dist.band[k].d = Len(a)
        /\ SumSeq(counts) = Len(a)
        /\ SumSeq([k \in 1..6 |-> 100 * counts[k]]) = 100 * Len(a)

\* C2's case: a map with a pixel on the band edge 0.15 and one on 0.40,
\* each counted at the low end of its band.
C2_Witness ==
  /\ pc = "grid"
  /\ brt.w = 2 /\ brt.v[0][0] = 153 /\ brt.v[0][1] = 408
  /\ dist.band[4].n = 1 /\ dist.band[5].n = 1

Alternating(a, lo, hi) ==
  /\ Len(a) >= 1 /\ lo < hi
  /\ \A i \in 1..Len(a) : a[i] \in {lo, hi}
  /\ \A i \in 1..(Len(a) - 1) : a[i] # a[i + 1]

Constant(a) == \A i, j \in 1..Len(a) : a[i] = a[j]

\* C6 as claimed: on an alternating low/high sequence of length N with
\* low <= t < high count_peaks gives floor(N/2) or ceil(N/2), and 0 on a
\* constant sequence.
C6_HalfRounded ==
  pc = "counted" =>
    /\ \A lo, hi \in PeakValues :
         (Alternating(arr, lo, hi) /\ lo <= threshold /\ threshold < hi)
           => peaks \in {Len(arr) \div 2, (Len(arr) + 1) \div 2}
    /\ Constant(arr) => peaks = 0

\* C6, amended: floor(N/2) when the sequence starts low, floor((N-1)/2) when
\* it starts high (the leading high run has no rising edge); 0 on a constant
\* sequence.
C6_RisingEdges ==
  pc = "counted" =>
    /\ \A lo, hi \in PeakValues :
         (Alternating(arr, lo, hi) /\ lo <= threshold /\ threshold < hi)
           => peaks = IF arr[1] = lo THEN Len(arr) \div 2
                      ELSE (Len(arr) - 1) \div 2
    /\ Constant(arr) => peaks = 0

\* C6's case: high, low, high, low with the threshold at low has one rising
\* edge, not two.
C6_Witness ==
  /\ pc = "counted"
  /\ arr = <<2, 0, 2, 0>> /\ threshold = 0
  /\ peaks = 1

\* C3 as claimed: the full pipeline on an all-black image of any size ends
\* with a report showing black = 100%, every other band and every colour
\* category 0%, reflections NO, and exactly the five issues TOO DARK, NO
\* GRID FLOOR, LOW CONTRAST, NO CYAN, NO SSR (no BLOOM OVERLOAD).
C3_AllBlackReport ==
  (Loaded /\ AllBlack(img) /\ Terminal) =>
    /\ pc = "done"
    /\ PctEq(report.dist.band[1], 100)
    /\ \A k \in 2..6 : PctEq(report.dist.band[k], 0)
    /\ \A f \in DOMAIN report.colors : PctEq(report.colors[f], 0)
    /\ report.reflections.floor_has_variation = "NO"
    /\ Range(report.issues) = Range(IssueOrder) \ {"BLOOM OVERLOAD"}

\* C4 as claimed: on an all-black image analyze_grid_lines gives
\* contrast_ratio 1.0 on each of the 8 scan lines.
C4_ContrastOne ==
  (Loaded /\ AllBlack(img) /\ HasGrid) =>
    \A i \in 1..Len(grid) : grid[i].contrast_ratio = ContrastScale

\* C4, amended: on an all-black image each of the 8 scan lines has its floor
\* level clamped to 0.001, its line level 0 and so contrast_ratio
\* 0 / 0.001 = 0.0, and no peak.
C4_ContrastZero ==
  (Loaded /\ AllBlack(img) /\ HasGrid) =>
    \A i \in 1..Len(grid) :
      /\ grid[i].floor_brightness = Num(LumOne \div 10, 100)
      /\ 1000 * grid[i].floor_brightness.n = grid[i].floor_brightness.d * LumOne
      /\ grid[i].line_brightness.n = 0
      /\ grid[i].contrast_ratio = 0
      /\ grid[i].peak_count = 0

\* C4's case: analyze_grid_lines has run on an all-black image with more
\* than one row and column.
C4_Witness ==
  /\ pc = "colors" /\ AllBlack(img) /\ img.h >= 4 /\ img.w >= 7
  /\ HasGrid /\ grid[1].contrast_ratio = 0 /\ grid[8].contrast_ratio = 0

\* Every row of b alternates between the luminances lo and hi.
RowsAlternate(b, lo, hi) ==
  /\ b.h >= 1 /\ b.w >= 1
  /\ \A y \in 0..(b.h - 1) : \A x \in 0..(b.w - 1) :
       /\ b.v[y][x] \in {lo, hi}
       /\ x + 1 < b.w => b.v[y][x + 1] # b.v[y][x]

ColumnsConstant(b) ==
  \A y \in 0..(b.h - 1) : \A x \in 0..(b.w - 1) : b.v[y][x] = b.v[0][x]

Lum05 == (5 * LumOne) \div 100
Lum20 == (20 * LumOne) \div 100

Verdict(g) == grid_verdict(AvgContrast(g), AvgPeaks(g))

\* C5 as claimed: rows alternating between 0.05 and 0.20 give every
\* horizontal scan line contrast_ratio 4.0 and at least one peak, and when
\* the peak count averaged over the 8 scan lines exceeds 2 the verdict is
\* GOOD or EXCELLENT.
C5_AtLeastGood ==
  (HasGrid /\ RowsAlternate(brt, Lum05, Lum20)) =>
    /\ \A i \in 1..5 : /\ grid[i].contrast_ratio = 4 * ContrastScale
                       /\ grid[i].peak_count > 0
    /\ RatGt(AvgPeaks(grid), 2, 1) => Verdict(grid) \in {"GOOD", "EXCELLENT"}

\* C5, amended: with rows alternating between 0.05 and 0.20 and a width of
\* at least 4, every horizontal scan line has contrast_ratio 4.0 and at
\* least one peak; the verdict over the 8 scan lines is GOOD exactly when
\* the averaged contrast exceeds 3.0 and the averaged peak count exceeds 2,
\* and WEAK otherwise; with the rows in phase (every column constant) the
\* three vertical scan lines have contrast 1.0, the average is 2.875 and
\* the verdict is WEAK whatever the width.
C5_GoodOrWeak ==
  (HasGrid /\ RowsAlternate(brt, Lum05, Lum20) /\ brt.w >= 4) =>
    /\ \A i \in 1..5 : /\ grid[i].contrast_ratio = 4 * ContrastScale
                       /\ grid[i].peak_count > 0
    /\ Verdict(grid) \in {"GOOD", "WEAK"}
    /\ Verdict(grid) = "GOOD"
         <=> (RatGt(AvgContrast(grid), 3, 1) /\ RatGt(AvgPeaks(grid), 2, 1))
    /\ ColumnsConstant(brt) =>
         /\ \A i \in 6..8 : grid[i].contrast_ratio = ContrastScale
         /\ 1000 * AvgContrast(grid).n = 2875 * AvgContrast(grid).d
         /\ Verdict(grid) = "WEAK"

\* C5's case: rows in phase, wide enough for an average of more than 2
\* peaks, and the verdict is WEAK.
C5_Witness ==
  /\ HasGrid /\ RowsAlternate(brt, Lum05, Lum20) /\ ColumnsConstant(brt)
  /\ brt.h >= 4
  /\ RatGt(AvgPeaks(grid), 2, 1)
  /\ Verdict(grid) = "WEAK"

NonEmpty(r) == r[1] < r[2] /\ r[3] < r[4]

HasNaN(rec) == \E f \in DOMAIN rec \ {"kind"} : rec[f].nan

\* C8 as claimed: for every image of at least 1 x 1 pixels each scan index
\* is inside the image, each of the five regions and the floor region holds
\* at least one pixel, and no analyzer raises or yields an undefined value.
C8_AnalyzersTotal ==
  (Loaded /\ img.h >= 1 /\ img.w >= 1 /\ img.ch = 3) =>
    /\ \A i \in 1..Len(ScanFracs) :
         /\ ScanFracs[i].axis = "h" => Trunc(ScanFracs[i].frac, img.h) < img.h
         /\ ScanFracs[i].axis = "v" => Trunc(ScanFracs[i].frac, img.w) < img.w
    /\ \A name \in RegionNames : NonEmpty(RegionBounds(img.h, img.w)[name])
    /\ NonEmpty(FloorBounds(img.h, img.w))
    /\ pc # "crashed"
    /\ pc \in {"reflections", "report", "done"} => ~HasNaN(regions)

\* C10 as claimed: the issue list never holds TOO DARK together with BLOOM
\* OVERLOAD, nor NO GRID FLOOR together with a hot share above 50%.
C10_NeverBoth ==
  pc = "done" =>
    /\ ~({"TOO DARK", "BLOOM OVERLOAD"} \subseteq Range(report.issues))
    /\ ~("NO GRID FLOOR" \in Range(report.issues) /\ PctGt(dist.band[6], 50))

\* C10, amended: the black and hot bands are disjoint shares of the same
\* pixels, black% + hot% <= 100, so NO GRID FLOOR never comes with a hot
\* share above 50%; TOO DARK (black > 70) and BLOOM OVERLOAD (hot > 15) do
\* come together, and then hot% < 30 and black% < 85.
C10_DisjointShares ==
  pc = "done" =>
    /\ dist.band[1].d = dist.band[6].d
    /\ dist.band[1].n + dist.band[6].n <= dist.band[1].d
    /\ ~("NO GRID FLOOR" \in Range(report.issues) /\ PctGt(dist.band[6], 50))
    /\ {"TOO DARK", "BLOOM OVERLOAD"} \subseteq Range(report.issues)
         => PctLt(dist.band[6], 30) /\ PctLt(dist.band[1], 85)

\* C10's case: a report that holds both TOO DARK and BLOOM OVERLOAD.
C10_Witness ==
  /\ pc = "done"
  /\ {"TOO DARK", "BLOOM OVERLOAD"} \subseteq Range(report.issues)
  /\ PctGt(dist.band[1], 70) /\ PctGt(dist.band[6], 15)

Malformed(im) == im.h * im.w = 0 \/ im.ch # 3

\* C7 as claimed: a PixelBuffer with no pixels, or with a channel count
\* other than 3, ends the pipeline in an error that is not the loader's
\* LoadError, and no report is produced.
C7_InvalidInput ==
  Malformed(img) =>
    /\ report = None
    /\ Terminal => (pc = "crashed" /\ error \notin {"none", "LoadError"})

\* C9: no analyzer changes img or brt, and in whatever order the five
\* analyzers complete, the run ends as main's sequential order ends on the
\* same image: the same five results, verdict and issue list, or no report.
C9_OrderIndependent ==
  /\ [][img' = img /\ brt' = brt]_vars
  /\ [](Terminal =>
          LET o == main_outcome(img, np_empty)
          IN  /\ pc = o.pc
              /\ report = o.report
              /\ pc = "done" =>
                   /\ o.report.dist = dist
                   /\ o.report.grid = grid
                   /\ o.report.colors = colors
                   /\ o.report.regions = regions
                   /\ o.report.reflections = reflections)

\* C9's case: the analyzers completed in the reverse of main's order, on an
\* image with black pixels, and a report with issues was produced.
C9_Witness ==
  /\ pc = "done"
  /\ finished = <<"reflections", "regions", "colors", "grid", "dist">>
  /\ \E q \in Positions(img) : brt.v[q[1]][q[2]] = 0
  /\ Len(report.issues) > 0

====
